---- MODULE Spec2Model ----
(***************************************************************************)
(* State-machine model of the learning platform: the handlers of           *)
(* src/app/main.py over the tables of src/app/models.py.                   *)
(*                                                                         *)
(* The database is SQLite (src/app/__init__.py:23) driven through          *)
(* SQLAlchemy's default pysqlite settings and served by Flask's threaded   *)
(* server (src/run.py:11), so requests of several clients interleave:      *)
(*   - a SELECT issued before the request's first write runs outside any   *)
(*     transaction and sees the rows committed at that instant;            *)
(*   - the first INSERT/UPDATE/DELETE of a request (a flush) takes the     *)
(*     database's single write lock, which is held until commit/rollback;  *)
(*     the rows written become visible to other requests at commit only;   *)
(*   - an INTEGER PRIMARY KEY without AUTOINCREMENT is max(id) + 1.        *)
(* A handler that reads mutable rows and then writes is split at those     *)
(* reads; each request occupies one slot of req.  A handler that only      *)
(* reads is one step: the page it renders, a function of the committed     *)
(* rows and the clock, is kept in the slot's view.                         *)
(***************************************************************************)
EXTENDS Integers, Sequences, FiniteSets, TLC

\* ---------------------------------------------------------------- bounds
MaxReq == 3          \* requests in one behaviour
MaxTakes == 2        \* of which quiz attempts, where authoring interleaves
MaxTime == 2         \* clock readings 0..MaxTime
MaxQuestions == 2    \* question ids the authoring actions hand out
MaxChoiceId == 2     \* choice ids the authoring actions hand out

\* ------------------------------------------------------------ fixed rows
\* users registered through auth.register; the role rule is auth.py:32
Users == {"admin", "stu1", "stu2"}

Role(u) == IF u = "admin" THEN "admin" ELSE "student"

\* courses and their lessons (created by create_course / create_lesson)
Courses == {1, 2}

\* both lessons belong to course 1; course 2 has no lesson yet
Lessons == {1, 2}

LessonCourse(l) == 1

StoredLessons == {[id |-> l, course_id |-> LessonCourse(l)] : l \in Lessons}

Reqs == 1..MaxReq

VARIABLES
    lessons,       \* table lessons: [id, course_id]
    enrollments,   \* table enrollments: [id, user_id, course_id]
    progress,      \* table lesson_progress: [id, user_id, lesson_id, is_completed, completed_at]
    questions,     \* table quiz_questions: [id, lesson_id]
    choices,       \* table quiz_choices: [id, question_id, is_correct]
    results,       \* table quiz_results: [id, user_id, lesson_id, score, total_questions, taken_at]
    details,       \* table quiz_result_details: [id, result_id, question_id, choice_id, is_correct]
    profiles,      \* table user_profiles: [user_id, weekly_goal_lessons]
    now,           \* datetime.utcnow()
    wlock,         \* slot holding the database write lock, 0 when free
    req            \* the requests: slot -> its handler's position and locals

vars == <<lessons, enrollments, progress, questions, choices, results, details, profiles,
          now, wlock, req>>

tables == <<lessons, enrollments, progress, questions, choices, results, details,
            profiles>>

\* --------------------------------------------------------------- helpers
Max(S) == IF S = {} THEN 0 ELSE CHOOSE x \in S : \A y \in S : y <= x

\* the id SQLite gives the next row of a table
NewId(rows) == Max({x.id : x \in rows}) + 1

Min(S) == CHOOSE x \in S : \A y \in S : x <= y

\* a set of ids in ascending order
RECURSIVE SortedIds(_)
SortedIds(S) == IF S = {} THEN <<>> ELSE <<Min(S)>> \o SortedIds(S \ {Min(S)})

\* int(): the decimal strings the forms carry, anything else raises ValueError
IntRange == 0..9

IsInt(s) == \E n \in IntRange : ToString(n) = s

ParseInt(s) == CHOOSE n \in IntRange : ToString(n) = s

\* what a request that renders no page hands to the template
NoView == [page |-> "none"]

\* a slot that holds no request yet
IdleReq ==
    [kind |-> "idle", pc |-> "idle", user |-> "", arg |-> 0, found |-> 0,
     qs |-> <<>>, form |-> <<>>, shell |-> <<>>, txd |-> {}, correct |-> 0,
     rid |-> 0, resp |-> "", view |-> NoView]

\* the slots whose request is still running; a finished slot keeps its
\* request's kind, caller, target and response
InFlight == {r \in Reqs : req[r].pc \notin {"idle", "done"}}

\* a behaviour holds at most MaxReq requests: each takes the lowest unused slot
InOrder(r) == req[r].kind = "idle" /\ \A s \in Reqs : s < r => req[s].kind # "idle"

\* the slot of a request that has ended with response resp; quiz_take's
\* response names the result and the score (main.py:1484-1487)
Ended(q, resp) ==
    [IdleReq EXCEPT !.kind = q.kind, !.user = q.user, !.arg = q.arg,
                    !.pc = "done", !.resp = resp]

\* ------------------------------------------------------------------ Init
Init ==
    /\ lessons = StoredLessons
    /\ enrollments = {}
    /\ progress = {}
    /\ questions = {}
    /\ choices = {}
    /\ results = {}
    /\ details = {}
    /\ profiles = {}
    /\ now = 0
    /\ wlock = 0
    /\ req = [r \in Reqs |-> IdleReq]

\* the clock advances between any two steps
Tick ==
    /\ now < MaxTime
    /\ now' = now + 1
    /\ UNCHANGED <<tables, wlock, req>>

\* --------------------------------------------------------- enroll_course
\* main.py:811-815: the course exists; look the (user, course) pair up
EnrollLookup(r, u, c) ==
    /\ InOrder(r)
    /\ LET hit == \E e \in enrollments : e.user_id = u /\ e.course_id = c
       IN req' = [req EXCEPT ![r] =
                    [IdleReq EXCEPT !.kind = "enroll", !.user = u, !.arg = c,
                                    !.pc = IF hit THEN "done" ELSE "insert",
                                    !.resp = IF hit THEN "already" ELSE ""]]
    /\ UNCHANGED <<tables, now, wlock>>

\* main.py:817-819: the row a passed lookup adds
EnrollRow(u, c) == [id |-> NewId(enrollments), user_id |-> u, course_id |-> c]

\* main.py:817-822: add the row and commit
EnrollInsert(r) ==
    /\ req[r].kind = "enroll" /\ req[r].pc = "insert"
    /\ wlock = 0
    /\ enrollments' = enrollments \cup {EnrollRow(req[r].user, req[r].arg)}
    /\ req' = [req EXCEPT ![r] = Ended(req[r], "ok")]
    /\ UNCHANGED <<lessons, progress, questions, choices, results, details, profiles, now, wlock>>

\* ------------------------------------------------------- complete_lesson
\* main.py:969-972: the enrollment the handler requires of the caller
CompleteAllowed(u, l) ==
    \E e \in enrollments : e.user_id = u /\ e.course_id = LessonCourse(l)

\* main.py:968-974: the lesson exists; reject a caller without enrollment
CompleteCheck(r, u, l) ==
    /\ InOrder(r)
    /\ LET ok == CompleteAllowed(u, l)
       IN req' = [req EXCEPT ![r] =
                    [IdleReq EXCEPT !.kind = "complete", !.user = u, !.arg = l,
                                    !.pc = IF ok THEN "lookup" ELSE "done",
                                    !.resp = IF ok THEN "" ELSE "not_enrolled"]]
    /\ UNCHANGED <<tables, now, wlock>>

\* main.py:976-979: .first() of the caller's rows for the lesson (no ORDER BY:
\* any of them), 0 when there is none
CompleteLookup(r) ==
    /\ req[r].kind = "complete" /\ req[r].pc = "lookup"
    /\ LET mine == {p \in progress : p.user_id = req[r].user /\ p.lesson_id = req[r].arg}
       IN IF mine = {}
          THEN req' = [req EXCEPT ![r].pc = "write", ![r].found = 0]
          ELSE \E p \in mine : req' = [req EXCEPT ![r].pc = "write", ![r].found = p.id]
    /\ UNCHANGED <<tables, now, wlock>>

\* (variant: the update sets the flag and leaves completed_at as it was)
CompleteRowsKeepsDate(found, u, l) ==
    IF found = 0
    THEN progress \cup {[id |-> NewId(progress), user_id |-> u, lesson_id |-> l,
                         is_completed |-> TRUE, completed_at |-> now]}
    ELSE {IF p.id = found THEN [p EXCEPT !.is_completed = TRUE] ELSE p : p \in progress}

\* main.py:981-991: insert when the lookup found nothing, else update that row
CompleteRows(found, u, l) ==
    IF found = 0
    THEN progress \cup {[id |-> NewId(progress), user_id |-> u, lesson_id |-> l,
                         is_completed |-> TRUE, completed_at |-> now]}
    ELSE {IF p.id = found
          THEN [p EXCEPT !.is_completed = TRUE, !.completed_at = now]
          ELSE p : p \in progress}

\* main.py:981-995: write and commit
CompleteWrite(r) ==
    /\ req[r].kind = "complete" /\ req[r].pc = "write"
    /\ wlock = 0
    /\ progress' = CompleteRows(req[r].found, req[r].user, req[r].arg)
    /\ req' = [req EXCEPT ![r] = Ended(req[r], "ok")]
    /\ UNCHANGED <<lessons, enrollments, questions, choices, results, details, profiles, now, wlock>>

\* -------------------------------------------------- quiz authoring (admin)
\* main.py:1038-1043: the four choice fields of the authoring forms
ChoiceSlots == 1..4

\* which of choice1..choice4 carry text, and the raw correct_choice field
ChoiceTexts == {<<TRUE, TRUE, FALSE, FALSE>>, <<FALSE, TRUE, FALSE, FALSE>>,
                <<FALSE, FALSE, FALSE, FALSE>>}

CorrectRaw == {"", "x", "0", "1", "2", "5"}

AuthorForms == [text : BOOLEAN, filled : ChoiceTexts, correct : CorrectRaw]

\* the forms sent while quiz attempts run: all four choices empty, or the
\* first two filled
QuizForms == {f \in AuthorForms : f.filled[1] = f.filled[2]}

\* main.py:1076-1084 and 1169-1177: one choice per non-empty text, in field
\* order, flagged correct when its field number is correct_index
NewChoices(kept, qid, filled, correct_index) ==
    {[id |-> NewId(kept) + Cardinality({j \in ChoiceSlots : j < i /\ filled[j]}),
      question_id |-> qid, is_correct |-> (i = correct_index)]
        : i \in {k \in ChoiceSlots : filled[k]}}

\* main.py:1047-1063: the checks quiz_create makes before it writes
CreateValid(f) ==
    /\ f.text
    /\ f.correct # ""
    /\ IsInt(f.correct)
    /\ ParseInt(f.correct) \in {1, 2, 3, 4}

\* main.py:1025-1088
QuizCreate(u, l, f) ==
    /\ Role(u) = "admin"
    /\ CreateValid(f)
    /\ wlock = 0
    /\ NewId(questions) <= MaxQuestions
    /\ LET qid == NewId(questions)
           new == NewChoices(choices, qid, f.filled, ParseInt(f.correct))
       IN /\ \A c \in new : c.id <= MaxChoiceId
          /\ questions' = questions \cup {[id |-> qid, lesson_id |-> l]}
          /\ choices' = choices \cup new
    /\ UNCHANGED <<lessons, enrollments, progress, results, details, profiles, now, wlock, req>>

\* main.py:1118-1159: the errors quiz_edit collects; any of them redisplays
EditValid(f) ==
    /\ f.text
    /\ f.correct # ""
    /\ IsInt(f.correct)
    /\ ParseInt(f.correct) \in {1, 2, 3, 4}
    /\ \E i \in ChoiceSlots : f.filled[i]

\* main.py:1166-1177: the choices of the question are deleted and made anew
EditChoices(qid, f) ==
    LET kept == {c \in choices : c.question_id # qid}
    IN kept \cup NewChoices(kept, qid, f.filled, ParseInt(f.correct))

\* main.py:1095-1181
QuizEdit(u, qid, f) ==
    /\ Role(u) = "admin"
    /\ \E q \in questions : q.id = qid
    /\ EditValid(f)
    /\ wlock = 0
    /\ \A c \in EditChoices(qid, f) : c.id <= MaxChoiceId
    /\ choices' = EditChoices(qid, f)
    /\ UNCHANGED <<lessons, enrollments, progress, questions, results, details, profiles, now, wlock, req>>

\* (variant: the delete cascades to the answers given to the question)
DeleteDetailsCascade(qid) == {d \in details : d.question_id # qid}

\* main.py:1218-1222: the question and its choices go; result details stay
DeleteDetails(qid) == details

\* main.py:1209-1225
QuizDelete(u, qid) ==
    /\ Role(u) = "admin"
    /\ \E q \in questions : q.id = qid
    /\ wlock = 0
    /\ choices' = {c \in choices : c.question_id # qid}
    /\ questions' = {q \in questions : q.id # qid}
    /\ details' = DeleteDetails(qid)
    /\ UNCHANGED <<lessons, enrollments, progress, results, profiles, now, wlock, req>>

\* -------------------------------------------------------------- quiz_take
\* (variant: any enrollment of the caller passes, whatever its course)
TakeAllowedAnyCourse(u, l) ==
    \/ Role(u) = "admin"
    \/ \E e \in enrollments : e.user_id = u

\* main.py:1407-1413: an admin passes, anyone else needs the enrollment
TakeAllowed(u, l) ==
    \/ Role(u) = "admin"
    \/ \E e \in enrollments : e.user_id = u /\ e.course_id = LessonCourse(l)

\* main.py:1403-1413
TakeCheck(r, u, l) ==
    /\ InOrder(r)
    /\ LET ok == TakeAllowed(u, l)
       IN req' = [req EXCEPT ![r] =
                    [IdleReq EXCEPT !.kind = "take", !.user = u, !.arg = l,
                                    !.pc = IF ok THEN "questions" ELSE "done",
                                    !.resp = IF ok THEN "" ELSE "not_enrolled"]]
    /\ UNCHANGED <<tables, now, wlock>>

\* (variant: the empty-quiz check is missing)
TakeAcceptsEmpty(qs) == FALSE

\* main.py:1422-1424: a lesson without questions has no quiz to take
TakeRejectsEmpty(qs) == qs = <<>>

\* main.py:1416-1424: the lesson's questions as of this query
TakeQuestions(r) ==
    /\ req[r].kind = "take" /\ req[r].pc = "questions"
    /\ LET qs == SortedIds({q.id : q \in {x \in questions : x.lesson_id = req[r].arg}})
       IN IF TakeRejectsEmpty(qs)
          THEN req' = [req EXCEPT ![r] = Ended(req[r], "no_quiz")]
          ELSE req' = [req EXCEPT ![r].pc = "flush", ![r].qs = qs]
    /\ UNCHANGED <<tables, now, wlock>>

\* (variant: a second attempt at a lesson takes over the caller's earlier row)
ResultShellUpsert(u, l, qs) ==
    LET old == {x \in results : x.user_id = u /\ x.lesson_id = l}
    IN [id |-> IF old = {} THEN NewId(results) ELSE Min({x.id : x \in old}),
        user_id |-> u, lesson_id |-> l, score |-> 0,
        total_questions |-> Len(qs), taken_at |-> now]

\* main.py:1440-1446: the result row as first written
ResultShell(u, l, qs) ==
    [id |-> NewId(results), user_id |-> u, lesson_id |-> l, score |-> 0,
     total_questions |-> Len(qs), taken_at |-> now]

\* (variant: the shell is committed on its own, before grading)
FlushAutocommits(shell) == results \cup {shell}

\* main.py:1447-1448: flush() inserts the shell inside the request's
\* transaction: the write lock is taken, nothing is visible to others yet
FlushVisible(shell) == results

TakeFlush(r) ==
    /\ req[r].kind = "take" /\ req[r].pc = "flush"
    /\ wlock = 0
    /\ LET shell == ResultShell(req[r].user, req[r].arg, req[r].qs)
       IN /\ req' = [req EXCEPT ![r].pc = "grade", ![r].shell = shell]
          /\ results' = FlushVisible(shell)
    /\ wlock' = r
    /\ UNCHANGED <<lessons, enrollments, progress, questions, choices, details, profiles, now>>

\* the values a field q_<id> of the submitted form may carry
\* (nothing, no number, or an id up to one past the stored choices)
FormValues == {"", "x"} \cup {ToString(n) : n \in 1..NewId(choices)}

\* main.py:1451-1478: the grading loop from question i on; acc carries the
\* detail rows added so far and correct_count
RECURSIVE GradeFrom(_, _, _, _, _)
GradeFrom(qs, i, form, rid, acc) ==
    IF i > Len(qs) THEN acc
    ELSE LET sel == form[qs[i]]
             hit == IF sel # "" /\ IsInt(sel)
                    THEN {c \in choices : c.id = ParseInt(sel)} ELSE {}
         IN IF hit = {}
            THEN GradeFrom(qs, i + 1, form, rid, acc)
            ELSE LET ch == CHOOSE c \in hit : TRUE
                     row == [id |-> NewId(details \cup acc.txd), result_id |-> rid,
                             question_id |-> qs[i], choice_id |-> ch.id,
                             is_correct |-> ch.is_correct]
                 IN GradeFrom(qs, i + 1, form, rid,
                              [txd |-> acc.txd \cup {row},
                               correct |-> acc.correct + (IF ch.is_correct THEN 1 ELSE 0)])

\* (variant: every answer that resolves to a choice counts as correct)
GradeCountsAnswered(qs, form, rid) ==
    LET g == GradeFrom(qs, 1, form, rid, [txd |-> {}, correct |-> 0])
    IN [g EXCEPT !.correct = Cardinality(g.txd)]

Grade(qs, form, rid) == GradeFrom(qs, 1, form, rid, [txd |-> {}, correct |-> 0])

\* main.py:1450-1478: the whole loop; the write lock keeps other writers out
TakeGrade(r) ==
    /\ req[r].kind = "take" /\ req[r].pc = "grade"
    /\ \E form \in [{req[r].qs[i] : i \in 1..Len(req[r].qs)} -> FormValues] :
         LET g == Grade(req[r].qs, form, req[r].shell.id)
         IN req' = [req EXCEPT ![r].pc = "commit", ![r].form = form,
                               ![r].txd = g.txd, ![r].correct = g.correct]
    /\ UNCHANGED <<tables, now, wlock>>

\* (variant: the score is the number of questions presented)
FinalScorePresented(r) == Len(req[r].qs)

\* main.py:1481: the score the committed result row carries
FinalScore(r) == req[r].correct

\* main.py:1480-1487
TakeCommit(r) ==
    /\ req[r].kind = "take" /\ req[r].pc = "commit"
    /\ wlock = r
    /\ results' = {x \in results : x.id # req[r].shell.id}
                    \cup {[req[r].shell EXCEPT !.score = FinalScore(r)]}
    /\ details' = details \cup req[r].txd
    /\ wlock' = 0
    /\ req' = [req EXCEPT ![r] = [Ended(req[r], "ok") EXCEPT
                                    !.rid = req[r].shell.id,
                                    !.correct = req[r].correct]]
    /\ UNCHANGED <<lessons, enrollments, progress, questions, choices, profiles, now>>

\* a failure of the store between flush and commit: the transaction is
\* rolled back and the request ends in an error
TakeAbort(r) ==
    /\ req[r].kind = "take" /\ req[r].pc \in {"grade", "commit"}
    /\ wlock = r
    /\ wlock' = 0
    /\ req' = [req EXCEPT ![r] = Ended(req[r], "error")]
    /\ UNCHANGED <<tables, now>>

\* ---------------------------------------------------- _build_progress_map
\* a visitor who has not logged in (course_list carries no login_required)
Anonymous == "anonymous"

\* main.py:49: the lessons stored for a course
CourseLessons(c) == {l.id : l \in {x \in lessons : x.course_id = c}}

\* (variant: a course without lessons is reported complete, 0 of 0)
EmptyCourseEntryComplete ==
    [completed |-> 0, total |-> 0, percent |-> 100, is_completed |-> TRUE]

\* main.py:50-57: the entry of a course without lessons
EmptyCourseEntry ==
    [completed |-> 0, total |-> 0, percent |-> 0, is_completed |-> FALSE]

\* main.py:59-68: COUNT over lesson_progress JOIN lessons: one per completed
\* progress row of the user whose lesson belongs to the course
CompletedCount(c, u) ==
    Cardinality({p \in progress : /\ p.lesson_id \in CourseLessons(c)
                                  /\ p.user_id = u
                                  /\ p.is_completed})

\* main.py:70: int(completed_count / total_lessons * 100); the double
\* quotient times 100, truncated, is the exact floor for every total below
\* 100 but 50
Percent(count, total) == (count * 100) \div total

\* main.py:48-78: the entry of one course
ProgressEntry(c, u) ==
    LET total_lessons == Cardinality(CourseLessons(c))
        completed_count == CompletedCount(c, u)
    IN IF total_lessons = 0
       THEN EmptyCourseEntry
       ELSE [completed |-> completed_count, total |-> total_lessons,
             percent |-> Percent(completed_count, total_lessons),
             is_completed |-> (completed_count = total_lessons)]

\* main.py:41-80: no entry at all for a caller who is not authenticated
BuildProgressMap(courses, u) ==
    IF u = Anonymous THEN <<>> ELSE [c \in courses |-> ProgressEntry(c, u)]

\* main.py:230-253: GET /courses; found is the set of courses the search
\* text matches (all of them when it is empty)
CourseList(r, u, found) ==
    /\ InOrder(r)
    /\ req' = [req EXCEPT ![r] =
                 [IdleReq EXCEPT !.kind = "courses", !.user = u, !.pc = "done",
                                 !.resp = "ok",
                                 !.view = [page |-> "index", courses |-> found,
                                           progress_map |-> BuildProgressMap(found, u)]]]
    /\ UNCHANGED <<tables, now, wlock>>

\* --------------------------------------------------------------- profile
\* a nullable column or a value that may be None: <<>> for None, <<v>> for v
None == <<>>

Some(v) == <<v>>

\* main.py:653: current_user.profile, the caller's row or None
ProfileOf(u) == {pr \in profiles : pr.user_id = u}

\* main.py:666-678: the goal the submitted field stands for
\* (the empty field clears the goal)
GoalOf(goal_raw) == IF goal_raw = "" THEN None ELSE Some(ParseInt(goal_raw))

\* main.py:652-707: POST /profile; a missing row is created first, a field
\* that is no integer >= 0 leaves the goal as it was
ProfileSave(u, goal_raw) ==
    /\ wlock = 0
    /\ LET old == IF ProfileOf(u) = {}
                  THEN [user_id |-> u, weekly_goal_lessons |-> None]
                  ELSE CHOOSE pr \in ProfileOf(u) : TRUE
           valid == goal_raw = "" \/ IsInt(goal_raw)
           new == IF valid THEN [old EXCEPT !.weekly_goal_lessons = GoalOf(goal_raw)]
                  ELSE old
       IN profiles' = (profiles \ ProfileOf(u)) \cup {new}
    /\ UNCHANGED <<lessons, enrollments, progress, questions, choices, results,
                   details, now, wlock, req>>

\* ------------------------------------------------------------- dashboard
\* datetimes are clock readings, DayLen of them to a calendar day; day 0 is
\* a Monday
DayLen == 2          \* clock readings per calendar day

\* datetime.date()
DateOf(t) == t \div DayLen

\* datetime(d.year, d.month, d.day): the first instant of a date
StartOf(d) == d * DayLen

\* date.weekday(): 0 is Monday
Weekday(d) == d % 7

\* main.py:386 and 412: the chart covers today and the 6 days before it
ChartDays == 7

\* main.py:418: the streaks look at today and the 59 days before it
StreakDays == 60

\* the filter_by(user_id, is_completed=True) every counter starts from
Completed(u) == {p \in progress : p.user_id = u /\ p.is_completed}

\* main.py:353-375
WeekCompleted(u) ==
    LET today == DateOf(now)
        start_of_week == StartOf(today - Weekday(today))
    IN Cardinality({p \in Completed(u) : p.completed_at >= start_of_week})

\* main.py:350-367
TodayCompleted(u) ==
    Cardinality({p \in Completed(u) : p.completed_at >= StartOf(DateOf(now))})

\* (variant: the chart lists today first)
ChartDateNewestFirst(i) == DateOf(now) - (i - 1)

\* main.py:412-413: the date of the chart's i-th entry
ChartDate(i) == DateOf(now) - (ChartDays - i)

\* main.py:386-415
ChartValues(u) ==
    LET today == DateOf(now)
        start_chart_date == today - (ChartDays - 1)
        recent_progress == {p \in Completed(u) : p.completed_at >= StartOf(start_chart_date)}
        counted == {p \in recent_progress :
                      /\ DateOf(p.completed_at) >= start_chart_date
                      /\ DateOf(p.completed_at) <= today}
    IN [i \in 1..ChartDays |->
          Cardinality({p \in counted : DateOf(p.completed_at) = ChartDate(i)})]

\* main.py:418-436
LearnedDates(u) ==
    LET streak_start == StartOf(DateOf(now) - (StreakDays - 1))
    IN {DateOf(p.completed_at) : p \in {x \in Completed(u) : x.completed_at >= streak_start}}

\* main.py:439-443: the loop from date d backwards
RECURSIVE StreakBack(_, _)
StreakBack(d, dates) == IF d \in dates THEN 1 + StreakBack(d - 1, dates) ELSE 0

CurrentStreak(u) == StreakBack(DateOf(now), LearnedDates(u))

\* (variant: a day without activity does not end a run)
RunBreaksLate(prev, d) == d - prev > 2

\* main.py:451: a date more than one day after the previous one starts a run
RunBreaks(prev, d) == d - prev > 1

\* main.py:446-457: the loop over the sorted dates from position i on
RECURSIVE LongestFrom(_, _, _, _)
LongestFrom(sorted, i, streak, longest) ==
    IF i > Len(sorted) THEN longest
    ELSE LET run == IF i = 1 \/ RunBreaks(sorted[i - 1], sorted[i])
                    THEN 1 ELSE streak + 1
         IN LongestFrom(sorted, i + 1, run, IF run > longest THEN run ELSE longest)

LongestStreak(u) == LongestFrom(SortedIds(LearnedDates(u)), 1, 0, 0)

\* main.py:460-466
WeeklyGoal(u) ==
    IF ProfileOf(u) = {} THEN 0
    ELSE LET goal_val == (CHOOSE pr \in ProfileOf(u) : TRUE).weekly_goal_lessons
         IN IF goal_val = None THEN 0 ELSE goal_val[1]

\* (variant: the percentage is not capped)
GoalPercentUncapped(week, goal) == (week * 100) \div goal

\* main.py:469-471: int(min(100, week * 100 / goal))
GoalPercent(week, goal) ==
    IF (week * 100) \div goal > 100 THEN 100 ELSE (week * 100) \div goal

\* main.py:459-471
WeeklyGoalPercent(u) ==
    IF WeeklyGoal(u) > 0 THEN Some(GoalPercent(WeekCompleted(u), WeeklyGoal(u)))
    ELSE None

\* main.py:306-308: the courses the caller is enrolled in
EnrolledCourses(u) == {e.course_id : e \in {x \in enrollments : x.user_id = u}}

\* main.py:304-492: GET /dashboard; the view carries the progress map, the
\* counters, the chart, the streaks and the goal
Dashboard(r, u) ==
    /\ InOrder(r)
    /\ req' = [req EXCEPT ![r] =
                 [IdleReq EXCEPT
                    !.kind = "dashboard", !.user = u, !.pc = "done", !.resp = "ok",
                    !.view = [page |-> "dashboard",
                              courses |-> EnrolledCourses(u),
                              progress_map |-> BuildProgressMap(EnrolledCourses(u), u),
                              total_lessons_completed |-> Cardinality(Completed(u)),
                              today_completed_lessons |-> TodayCompleted(u),
                              week_completed_lessons |-> WeekCompleted(u),
                              chart_values |-> ChartValues(u),
                              current_streak_days |-> CurrentStreak(u),
                              longest_streak_days |-> LongestStreak(u),
                              weekly_goal |-> WeeklyGoal(u),
                              weekly_goal_percent |-> WeeklyGoalPercent(u)]]]
    /\ UNCHANGED <<tables, now, wlock>>

\* --------------------------------------------------------------- history
\* the texts of the dates 2024-01-01 (day 0, a Monday) and following;
\* strptime(s, "%Y-%m-%d") gives the date for these and raises ValueError
\* for any other text
DateText == <<"2024-01-01", "2024-01-02", "2024-01-03">>

IsDate(s) == \E i \in DOMAIN DateText : DateText[i] = s

ParseDate(s) == (CHOOSE i \in DOMAIN DateText : DateText[i] = s) - 1

\* main.py:517-529: one try block around both conversions
DateRaises(start_date_str, end_date_str) ==
    \/ start_date_str # "" /\ ~IsDate(start_date_str)
    \/ end_date_str # "" /\ ~IsDate(end_date_str)

\* main.py:518-520 and 526-528
StartDt(start_date_str, end_date_str) ==
    IF start_date_str = "" \/ DateRaises(start_date_str, end_date_str) THEN None
    ELSE Some(StartOf(ParseDate(start_date_str)))

\* main.py:521-529: the first instant of the day after the end date
EndDt(start_date_str, end_date_str) ==
    IF end_date_str = "" \/ DateRaises(start_date_str, end_date_str) THEN None
    ELSE Some(StartOf(ParseDate(end_date_str) + 1))

\* main.py:540-545 and 562-567: the filters on one row, at its timestamp,
\* lesson its lesson; course 0 stands for no course_id
HistoryKeeps(lesson, at, course, start_dt, end_dt) ==
    /\ \E l \in lessons : l.id = lesson /\ (course = 0 \/ l.course_id = course)
    /\ start_dt = None \/ at >= start_dt[1]
    /\ end_dt = None \/ at < end_dt[1]

\* main.py:547-552 and 569-574: the page size
HistoryLimit == 50

\* ORDER BY at DESC: the orders of rows [id, at] the clause allows (rows of
\* one timestamp come in any order)
RECURSIVE DescOrders(_)
DescOrders(rows) ==
    IF rows = {} THEN {<<>>}
    ELSE UNION {{<<m.id>> \o rest : rest \in DescOrders(rows \ {m})}
                  : m \in {x \in rows : \A y \in rows : y.at <= x.at}}

\* a page of the 50 last rows of the order instead of the 50 first
LimitedOldest(seq) ==
    SubSeq(seq, IF Len(seq) < HistoryLimit THEN 1 ELSE Len(seq) - HistoryLimit + 1, Len(seq))

\* .limit(50)
Limited(seq) == SubSeq(seq, 1, IF Len(seq) < HistoryLimit THEN Len(seq) ELSE HistoryLimit)

\* main.py:500-584: GET /history
History(r, u, course, start_date_str, end_date_str) ==
    /\ InOrder(r)
    /\ LET start_dt == StartDt(start_date_str, end_date_str)
           end_dt == EndDt(start_date_str, end_date_str)
           lesson_q == {[id |-> p.id, at |-> p.completed_at] :
                          p \in {x \in Completed(u) :
                                   HistoryKeeps(x.lesson_id, x.completed_at, course,
                                                start_dt, end_dt)}}
           quiz_q == {[id |-> q.id, at |-> q.taken_at] :
                        q \in {x \in results :
                                 /\ x.user_id = u
                                 /\ HistoryKeeps(x.lesson_id, x.taken_at, course,
                                                 start_dt, end_dt)}}
       IN \E ls \in DescOrders(lesson_q), qs \in DescOrders(quiz_q) :
            req' = [req EXCEPT ![r] =
                      [IdleReq EXCEPT
                         !.kind = "history", !.user = u, !.arg = course,
                         !.form = [start_date |-> start_date_str,
                                   end_date |-> end_date_str],
                         !.pc = "done", !.resp = "ok",
                         !.view = [page |-> "history",
                                   courses |-> EnrolledCourses(u),
                                   recent_lessons |-> Limited(ls),
                                   recent_quiz_results |-> Limited(qs)]]]
    /\ UNCHANGED <<tables, now, wlock>>

\* ------------------------------------------- quiz_retry, quiz_retry_submit
\* main.py:1381 and 1499: the details of the original flagged incorrect
WrongDetails(rid) == {d \in details : d.result_id = rid /\ ~d.is_correct}

\* QuizResultDetail.question (models.py:233): the stored question of a
\* detail, 0 (None) once quiz_delete has removed it
QuestionOf(d) == IF \E q \in questions : q.id = d.question_id THEN d.question_id ELSE 0

\* (variant: a result without wrong details is presented like any other)
RetryPresentsAlways(wrong) == FALSE

\* main.py:1383-1385: nothing to present
RetryNothingWrong(wrong) == wrong = {}

\* main.py:1371-1394: GET /quiz_retry/<result_id>
QuizRetry(r, u, rid) ==
    /\ InOrder(r)
    /\ LET mine == {x \in results : x.id = rid /\ x.user_id = u}
           wrong == WrongDetails(rid)
           resp == IF mine = {} THEN "not_found"
                   ELSE IF RetryNothingWrong(wrong) THEN "nothing_to_retry"
                   ELSE "ok"
           page == IF resp = "ok"
                   THEN [page |-> "quiz_retry", original |-> rid,
                         questions |-> {[detail |-> d.id, question |-> QuestionOf(d)]
                                           : d \in wrong}]
                   ELSE NoView
       IN req' = [req EXCEPT ![r] =
                    [IdleReq EXCEPT !.kind = "retry", !.user = u, !.arg = rid,
                                    !.pc = "done", !.resp = resp, !.view = page]]
    /\ UNCHANGED <<tables, now, wlock>>

\* main.py:1506-1513: q.id of a removed question and int() of a field that
\* is no number raise; the request ends in an error
RetryRaises(wrong, form) ==
    \E d \in wrong :
        \/ QuestionOf(d) = 0
        \/ form[d.question_id] # "" /\ ~IsInt(form[d.question_id])

\* main.py:1510-1515: the choice a field resolves to, 0 when the field is
\* empty or names no stored choice
RetrySelected(sel) ==
    IF sel # "" /\ IsInt(sel) /\ \E c \in choices : c.id = ParseInt(sel)
    THEN ParseInt(sel) ELSE 0

\* main.py:1505-1530: one entry of the review list
RetryRow(d, form) ==
    LET sel == RetrySelected(form[d.question_id])
    IN [detail |-> d.id, question |-> d.question_id, selected |-> sel,
        is_correct |-> (\E c \in choices : c.id = sel /\ c.is_correct)]

\* (variant: the retry is stored as an attempt of its own)
RetryPersists(u, rid, score, total) ==
    results \cup {[id |-> NewId(results), user_id |-> u,
                   lesson_id |-> (CHOOSE x \in results : x.id = rid).lesson_id,
                   score |-> score, total_questions |-> total, taken_at |-> now]}

\* main.py:1532-1538: the tally is rendered, nothing is added to the session
RetryStores(u, rid, score, total) == results

\* main.py:1491-1538: POST /quiz_retry/<result_id>
QuizRetrySubmit(r, u, rid) ==
    /\ InOrder(r)
    /\ LET mine == {x \in results : x.id = rid /\ x.user_id = u}
           wrong == WrongDetails(rid)
       IN \E form \in [{d.question_id : d \in wrong} -> FormValues] :
            LET rows == {RetryRow(d, form) : d \in wrong}
                score == Cardinality({w \in rows : w.is_correct})
                resp == IF mine = {} THEN "not_found"
                        ELSE IF RetryRaises(wrong, form) THEN "error"
                        ELSE "ok"
                page == IF resp = "ok"
                        THEN [page |-> "quiz_retry_result", original |-> rid,
                              score |-> score, total |-> Cardinality(wrong),
                              results |-> rows]
                        ELSE NoView
            IN /\ req' = [req EXCEPT ![r] =
                            [IdleReq EXCEPT !.kind = "retry_submit", !.user = u,
                                            !.arg = rid, !.pc = "done",
                                            !.form = IF mine = {} THEN <<>> ELSE form,
                                            !.resp = resp, !.view = page]]
               /\ results' = IF resp = "ok"
                             THEN RetryStores(u, rid, score, Cardinality(wrong))
                             ELSE results
    /\ UNCHANGED <<lessons, enrollments, progress, questions, choices, details, profiles,
                   now, wlock>>

\* ---------------------------------------------------- quiz_result_detail
\* main.py:1356-1358 and 628-629: int(score / total_questions * 100), 0 for
\* a total of 0; for the totals below 50 the double arithmetic of the
\* source gives the exact quotient
ScorePercent(score, total) == IF total > 0 THEN (score * 100) \div total ELSE 0

\* main.py:1347-1353: the details of the result, inner-joined to their
\* question and their choice
JoinedDetails(rid) ==
    {d \in details : /\ d.result_id = rid
                     /\ \E q \in questions : q.id = d.question_id
                     /\ \E c \in choices : c.id = d.choice_id}

\* main.py:1337-1341: the result exists and is the user's own, or the user
\* is an admin
DetailAllowed(u, rid) ==
    \E x \in results : x.id = rid /\ (x.user_id = u \/ Role(u) = "admin")

\* main.py:1331-1367: GET /quiz_results/<result_id>
QuizResultDetail(r, u, rid) ==
    /\ InOrder(r)
    /\ LET resp == IF DetailAllowed(u, rid) THEN "ok" ELSE "not_found"
           page == IF resp = "ok"
                   THEN LET result == CHOOSE x \in results : x.id = rid
                        IN [page |-> "quiz_result_detail", result |-> rid,
                            details |-> {d.id : d \in JoinedDetails(rid)},
                            percent |-> ScorePercent(result.score, result.total_questions)]
                   ELSE NoView
       IN req' = [req EXCEPT ![r] =
                    [IdleReq EXCEPT !.kind = "result_detail", !.user = u, !.arg = rid,
                                    !.pc = "done", !.resp = resp, !.view = page]]
    /\ UNCHANGED <<tables, now, wlock>>

\* ----------------------------------------------------------- quiz_summary
\* main.py:609-619: the entry opened by the first result of a lesson
SummaryEntry(x) ==
    [lesson |-> x.lesson_id, attempts |-> 0, best_score |-> 0, best_percent |-> 0,
     total_questions |-> x.total_questions, last_taken_at |-> None,
     latest_result |-> x.id]

\* (variant: the result taken first replaces the one held)
SummaryEarlier(entry, x) ==
    entry.last_taken_at = None \/ x.taken_at < entry.last_taken_at[1]

\* main.py:632: the result is later than the one held
SummaryLater(entry, x) ==
    entry.last_taken_at = None \/ x.taken_at > entry.last_taken_at[1]

\* main.py:621-634: one result added to the entry of its lesson
SummaryStep(entry, x) ==
    LET better == x.score > entry.best_score
        later == SummaryLater(entry, x)
    IN [entry EXCEPT
          !.attempts = @ + 1,
          !.best_score = IF better THEN x.score ELSE @,
          !.total_questions = IF better THEN x.total_questions ELSE @,
          !.best_percent = IF better /\ x.total_questions > 0
                           THEN ScorePercent(x.score, x.total_questions) ELSE @,
          !.last_taken_at = IF later THEN Some(x.taken_at) ELSE @,
          !.latest_result = IF later THEN x.id ELSE @]

\* main.py:605-634: the loop over the results from the i-th on; summary is
\* summary_by_lesson, a function of the lesson ids met so far
RECURSIVE SummaryFrom(_, _, _)
SummaryFrom(order, i, summary) ==
    IF i > Len(order) THEN summary
    ELSE LET x == CHOOSE y \in results : y.id = order[i]
             lid == x.lesson_id
             entry == IF lid \in DOMAIN summary THEN summary[lid] ELSE SummaryEntry(x)
         IN SummaryFrom(order, i + 1,
                        [l \in DOMAIN summary \cup {lid} |->
                           IF l = lid THEN SummaryStep(entry, x) ELSE summary[l]])

\* main.py:589-645: GET /quiz_summary; the page holds the entries (their
\* order by course title and lesson sort_order, columns the tables of the
\* model do not carry, is not represented)
QuizSummary(r, u) ==
    /\ InOrder(r)
    /\ \E order \in DescOrders({[id |-> x.id, at |-> x.taken_at] :
                                   x \in {y \in results :
                                            /\ y.user_id = u
                                            /\ \E l \in lessons : l.id = y.lesson_id}}) :
         LET summary == SummaryFrom(order, 1, <<>>)
         IN req' = [req EXCEPT ![r] =
                      [IdleReq EXCEPT
                         !.kind = "quiz_summary", !.user = u, !.pc = "done",
                         !.resp = "ok",
                         !.view = [page |-> "quiz_summary",
                                   summary_list |-> {summary[l] : l \in DOMAIN summary}]]]
    /\ UNCHANGED <<tables, now, wlock>>

\* ------------------------------------------------- the specifications
\* enrollment and lesson completion, requests of all users interleaved
Next ==
    \/ \E r \in Reqs, u \in Users, c \in Courses : EnrollLookup(r, u, c)
    \/ \E r \in Reqs : EnrollInsert(r)
    \/ \E r \in Reqs, u \in Users, l \in Lessons : CompleteCheck(r, u, l)
    \/ \E r \in Reqs : CompleteLookup(r)
    \/ \E r \in Reqs : CompleteWrite(r)

Spec == Init /\ [][Next]_vars

\* lesson completion one request after the other, the clock running; the
\* students have enrolled in course 1 before
Students == {"stu1", "stu2"}

InitSeq ==
    /\ lessons = StoredLessons
    /\ enrollments = {[id |-> 1, user_id |-> "stu1", course_id |-> 1],
                      [id |-> 2, user_id |-> "stu2", course_id |-> 1]}
    /\ progress = {}
    /\ questions = {}
    /\ choices = {}
    /\ results = {}
    /\ details = {}
    /\ profiles = {}
    /\ now = 0
    /\ wlock = 0
    /\ req = [r \in Reqs |-> IdleReq]

NextSeq ==
    \/ Tick
    \/ \E r \in Reqs, u \in Students, l \in Lessons :
          InFlight = {} /\ CompleteCheck(r, u, l)
    \/ \E r \in Reqs : CompleteLookup(r)
    \/ \E r \in Reqs : CompleteWrite(r)

SpecSeq == InitSeq /\ [][NextSeq]_vars

\* the quiz side: authoring by the admin interleaved with quiz attempts
QuizUsers == {"admin", "stu1"}

QuizLessons == {1}

QuizReqs == 1..MaxTakes

NextQuiz ==
    \/ \E u \in QuizUsers, l \in QuizLessons, f \in QuizForms : QuizCreate(u, l, f)
    \/ \E u \in QuizUsers, q \in 1..MaxQuestions, f \in QuizForms : QuizEdit(u, q, f)
    \/ \E u \in QuizUsers, q \in 1..MaxQuestions : QuizDelete(u, q)
    \/ \E r \in QuizReqs, u \in QuizUsers, l \in QuizLessons : TakeCheck(r, u, l)
    \/ \E r \in QuizReqs : TakeQuestions(r)
    \/ \E r \in QuizReqs : TakeFlush(r)
    \/ \E r \in QuizReqs : TakeGrade(r)
    \/ \E r \in QuizReqs : TakeCommit(r)
    \/ \E r \in QuizReqs : TakeAbort(r)

SpecQuiz == Init /\ [][NextQuiz]_vars

\* who may write: lesson 1 carries a one-question quiz (authored by
\* quiz_create), nobody has enrolled yet
InitAccess ==
    /\ lessons = StoredLessons
    /\ enrollments = {}
    /\ progress = {}
    /\ questions = {[id |-> 1, lesson_id |-> 1]}
    /\ choices = {[id |-> 1, question_id |-> 1, is_correct |-> TRUE],
                  [id |-> 2, question_id |-> 1, is_correct |-> FALSE]}
    /\ results = {}
    /\ details = {}
    /\ profiles = {}
    /\ now = 0
    /\ wlock = 0
    /\ req = [r \in Reqs |-> IdleReq]

NextAccess ==
    \/ \E r \in Reqs, u \in QuizUsers, c \in Courses : EnrollLookup(r, u, c)
    \/ \E r \in Reqs : EnrollInsert(r)
    \/ \E r \in Reqs, u \in QuizUsers, l \in Lessons : CompleteCheck(r, u, l)
    \/ \E r \in Reqs : CompleteLookup(r)
    \/ \E r \in Reqs : CompleteWrite(r)
    \/ \E r \in Reqs, u \in QuizUsers, l \in Lessons : TakeCheck(r, u, l)
    \/ \E r \in Reqs : TakeQuestions(r)
    \/ \E r \in Reqs : TakeFlush(r)
    \/ \E r \in Reqs : TakeGrade(r)
    \/ \E r \in Reqs : TakeCommit(r)
    \/ \E r \in Reqs : TakeAbort(r)

SpecAccess == InitAccess /\ [][NextAccess]_vars

\* grading one attempt at a four-question quiz (four quiz_create calls: two
\* questions with two choices, two with one); which field was marked correct
\* is drawn from the two given patterns
GradeQuizzes ==
    {{[id |-> 1, question_id |-> 1, is_correct |-> TRUE],
      [id |-> 2, question_id |-> 1, is_correct |-> FALSE],
      [id |-> 3, question_id |-> 2, is_correct |-> FALSE],
      [id |-> 4, question_id |-> 2, is_correct |-> TRUE],
      [id |-> 5, question_id |-> 3, is_correct |-> TRUE],
      [id |-> 6, question_id |-> 4, is_correct |-> TRUE]},
     {[id |-> 1, question_id |-> 1, is_correct |-> FALSE],
      [id |-> 2, question_id |-> 1, is_correct |-> TRUE],
      [id |-> 3, question_id |-> 2, is_correct |-> TRUE],
      [id |-> 4, question_id |-> 2, is_correct |-> FALSE],
      [id |-> 5, question_id |-> 3, is_correct |-> TRUE],
      [id |-> 6, question_id |-> 4, is_correct |-> FALSE]}}

InitGrade ==
    /\ lessons = StoredLessons
    /\ enrollments = {[id |-> 1, user_id |-> "stu1", course_id |-> 1]}
    /\ progress = {}
    /\ questions = {[id |-> q, lesson_id |-> 1] : q \in 1..4}
    /\ choices \in GradeQuizzes
    /\ results = {}
    /\ details = {}
    /\ profiles = {}
    /\ now = 0
    /\ wlock = 0
    /\ req = [r \in Reqs |-> IdleReq]

NextGrade ==
    \/ \E u \in {"stu1"}, l \in QuizLessons : TakeCheck(1, u, l)
    \/ TakeQuestions(1)
    \/ TakeFlush(1)
    \/ TakeGrade(1)
    \/ TakeCommit(1)
    \/ TakeAbort(1)

SpecGrade == InitGrade /\ [][NextGrade]_vars

\* the retry flow: lesson 1 carries a two-question quiz (two quiz_create
\* calls), both students have enrolled; stu1 makes one attempt, then retries
\* by either student and the removal of questions interleave
RetryUsers == {"stu1", "stu2"}

InitRetry ==
    /\ lessons = StoredLessons
    /\ enrollments = {[id |-> 1, user_id |-> "stu1", course_id |-> 1],
                      [id |-> 2, user_id |-> "stu2", course_id |-> 1]}
    /\ progress = {}
    /\ questions = {[id |-> 1, lesson_id |-> 1], [id |-> 2, lesson_id |-> 1]}
    /\ choices = {[id |-> 1, question_id |-> 1, is_correct |-> TRUE],
                  [id |-> 2, question_id |-> 1, is_correct |-> FALSE],
                  [id |-> 3, question_id |-> 2, is_correct |-> FALSE],
                  [id |-> 4, question_id |-> 2, is_correct |-> TRUE]}
    /\ results = {}
    /\ details = {}
    /\ profiles = {}
    /\ now = 0
    /\ wlock = 0
    /\ req = [r \in Reqs |-> IdleReq]

NextRetry ==
    \/ \E l \in QuizLessons : TakeCheck(1, "stu1", l)
    \/ TakeQuestions(1)
    \/ TakeFlush(1)
    \/ TakeGrade(1)
    \/ TakeCommit(1)
    \/ TakeAbort(1)
    \/ \E q \in 1..MaxQuestions : QuizDelete("admin", q)
    \/ \E r \in Reqs, u \in RetryUsers, x \in QuizReqs : QuizRetry(r, u, x)
    \/ \E r \in Reqs, u \in RetryUsers, x \in QuizReqs : QuizRetrySubmit(r, u, x)
    \/ \E r \in Reqs, u \in Users, x \in QuizReqs : QuizResultDetail(r, u, x)

SpecRetry == InitRetry /\ [][NextRetry]_vars

\* the course list read while completions of the two enrolled students run
Visitors == Students \cup {Anonymous}

NextProgress ==
    \/ \E r \in Reqs, u \in Students, l \in Lessons : CompleteCheck(r, u, l)
    \/ \E r \in Reqs : CompleteLookup(r)
    \/ \E r \in Reqs : CompleteWrite(r)
    \/ \E r \in Reqs, u \in Visitors, found \in SUBSET Courses : CourseList(r, u, found)

SpecProgress == InitSeq /\ [][NextProgress]_vars

\* the dashboard over learning calendars: course 1 has MaxLessons lessons,
\* stu1 has completed them in order, one per event of the calendar; stu2
\* has completed two, yesterday and today
MaxLessons == 62     \* lessons of course 1 where the dashboard is read

\* the dates the dashboard is read on: a Monday and a Thursday
DashDays == {70, 73}

\* the k-th completion of a day is made at the day's k-th clock reading
EventAt(e) == StartOf(e[1]) + e[2] - 1

EventRows(events, u, first) ==
    {[id |-> first + Cardinality({x \in events : EventAt(x) < EventAt(e)}),
      user_id |-> u,
      lesson_id |-> 1 + Cardinality({x \in events : EventAt(x) < EventAt(e)}),
      is_completed |-> TRUE, completed_at |-> EventAt(e)] : e \in events}

\* up to DayLen completions on each of six days around the chart's window
ChartCalendars(T) ==
    LET days == {T - 7, T - 6, T - 4, T - 3, T - 1, T}
    IN {{e \in days \X (1..DayLen) : e[2] <= cal[e[1]]} : cal \in [days -> 0..DayLen]}

\* n consecutive active days, the last of them day last
Run(last, n) == {<<d, 1>> : d \in (last - n + 1)..last}

\* two runs of active days with a gap between them, the later one ending
\* today or up to two days ago
StreakCalendars(T) ==
    {cal \in {Run(T - e, n) \cup Run(T - e - n - g, m) :
                 e \in 0..2, n \in {0, 1, 2, 3, 59, 60, 61}, g \in 1..2,
                 m \in {0, 1, 3, 58, 59}} :
        Cardinality(cal) <= MaxLessons}

InitDash ==
    /\ lessons = {[id |-> l, course_id |-> 1] : l \in 1..MaxLessons}
    /\ enrollments = {[id |-> 1, user_id |-> "stu1", course_id |-> 1],
                      [id |-> 2, user_id |-> "stu2", course_id |-> 1]}
    /\ questions = {}
    /\ choices = {}
    /\ results = {}
    /\ details = {}
    /\ profiles = {}
    /\ wlock = 0
    /\ req = [r \in Reqs |-> IdleReq]
    /\ \E T \in DashDays :
         /\ now = StartOf(T) + DayLen - 1
         /\ \E cal \in ChartCalendars(T) \cup StreakCalendars(T) :
              progress = EventRows(cal, "stu1", 1)
                           \cup EventRows({<<T - 1, 1>>, <<T, 1>>}, "stu2",
                                          Cardinality(cal) + 1)

\* the goal fields the profile form is sent with
GoalRaws == {"", "x", "0", "1", "5"}

NextDash ==
    \/ \E raw \in GoalRaws : ProfileSave("stu1", raw)
    \/ \E u \in Students : Dashboard(1, u)

SpecDash == InitDash /\ [][NextDash]_vars

\* the history over the events of three days: stu1 has completed none, one
\* or both lessons of course 1 and has taken the quiz of lesson 1 up to
\* twice, at any readings of days 0..2; stu2 has one event of each kind
HistTimes == 0..(3 * DayLen - 1)

HistProgress ==
    {{[id |-> 1, user_id |-> "stu2", lesson_id |-> 1, is_completed |-> TRUE,
       completed_at |-> 0]}
       \cup {[id |-> 1 + i, user_id |-> "stu1", lesson_id |-> i,
              is_completed |-> TRUE, completed_at |-> ts[i]] : i \in DOMAIN ts}
     : ts \in UNION {[1..n -> HistTimes] : n \in 0..2}}

HistResults ==
    {{[id |-> 1, user_id |-> "stu2", lesson_id |-> 1, score |-> 0,
       total_questions |-> 1, taken_at |-> 0]}
       \cup {[id |-> 1 + i, user_id |-> "stu1", lesson_id |-> 1, score |-> 0,
              total_questions |-> 1, taken_at |-> ts[i]] : i \in DOMAIN ts}
     : ts \in {f \in UNION {[1..n -> HistTimes] : n \in 0..2} :
                 \A i, j \in DOMAIN f : i < j => f[i] <= f[j]}}

\* a long history: lesson 1 belongs to course 2 and the other lessons to
\* course 1; stu1, enrolled in both, has completed the lessons 1..n and
\* taken a quiz n times (the first time on lesson 1, then on lesson 2), for
\* n around the page size, the i-th event at instant i; with tie the two
\* oldest events of each kind share instant 1
LongLessons == {[id |-> l, course_id |-> IF l = 1 THEN 2 ELSE 1] : l \in 1..MaxLessons}

LongAt(i, tie) == IF tie /\ i > 1 THEN i - 1 ELSE i

LongProgress(n, tie) ==
    {[id |-> i, user_id |-> "stu1", lesson_id |-> i, is_completed |-> TRUE,
      completed_at |-> LongAt(i, tie)] : i \in 1..n}

LongResults(n, tie) ==
    {[id |-> i, user_id |-> "stu1", lesson_id |-> IF i = 1 THEN 1 ELSE 2, score |-> 0,
      total_questions |-> 1, taken_at |-> LongAt(i, tie)] : i \in 1..n}

InitHistory ==
    /\ \/ /\ lessons = StoredLessons
          /\ enrollments = {[id |-> 1, user_id |-> "stu1", course_id |-> 1],
                            [id |-> 2, user_id |-> "stu2", course_id |-> 1]}
          /\ progress \in HistProgress
          /\ questions = {[id |-> 1, lesson_id |-> 1]}
          /\ choices = {[id |-> 1, question_id |-> 1, is_correct |-> TRUE],
                        [id |-> 2, question_id |-> 1, is_correct |-> FALSE]}
          /\ results \in HistResults
          /\ now = 3 * DayLen
       \/ /\ lessons = LongLessons
          /\ enrollments = {[id |-> 1, user_id |-> "stu1", course_id |-> 1],
                            [id |-> 2, user_id |-> "stu1", course_id |-> 2]}
          /\ questions = {[id |-> 1, lesson_id |-> 1], [id |-> 2, lesson_id |-> 2]}
          /\ choices = {[id |-> 1, question_id |-> 1, is_correct |-> TRUE],
                        [id |-> 2, question_id |-> 2, is_correct |-> TRUE]}
          /\ \E n \in HistoryLimit..(HistoryLimit + 2), tie \in BOOLEAN :
                /\ progress = LongProgress(n, tie)
                /\ results = LongResults(n, tie)
          /\ now = HistoryLimit + 2
    /\ details = {}
    /\ profiles = {}
    /\ wlock = 0
    /\ req = [r \in Reqs |-> IdleReq]

\* the date fields the history form is sent with
DateFields == {"", "2024-01-01", "2024-01-02", "2024-01-03", "2024-02-30"}

NextHistory ==
    \E u \in Students, course \in {0} \cup Courses, s \in DateFields, e \in DateFields :
        History(1, u, course, s, e)

SpecHistory == InitHistory /\ [][NextHistory]_vars

\* the quiz summary over up to three attempts of stu1 at the quizzes of
\* lessons 1 and 2 (questions 1, 2 and 3, 4), taken in the order of their
\* ids at instants 0..MaxTime, when the lesson had 1..MaxQuestions
\* questions, after one attempt of stu2 at the quiz of lesson 1; an attempt
\* of score s holds the details of its s first questions, all answered
\* correctly
Attempts ==
    {a \in [lesson : Lessons, total : 1..MaxQuestions, score : 0..MaxQuestions,
            at : 0..MaxTime] : a.score <= a.total}

SummaryResults(f) ==
    {[id |-> 1, user_id |-> "stu2", lesson_id |-> 1, score |-> 1, total_questions |-> 1,
      taken_at |-> 0]}
      \cup {[id |-> 1 + i, user_id |-> "stu1", lesson_id |-> f[i].lesson,
              score |-> f[i].score, total_questions |-> f[i].total,
              taken_at |-> f[i].at] : i \in DOMAIN f}

SummaryDetails(rows) ==
    UNION {{[id |-> Cardinality(UNION {{<<y.id, m>> : m \in 1..y.score}
                                        : y \in {z \in rows : z.id < x.id}}) + k,
             result_id |-> x.id, question_id |-> 2 * x.lesson_id - 2 + k,
             choice_id |-> 2 * x.lesson_id - 2 + k, is_correct |-> TRUE]
            : k \in 1..x.score} : x \in rows}

InitSummary ==
    /\ lessons = StoredLessons
    /\ enrollments = {[id |-> 1, user_id |-> "stu1", course_id |-> 1],
                      [id |-> 2, user_id |-> "stu2", course_id |-> 1]}
    /\ progress = {}
    /\ questions = {[id |-> q, lesson_id |-> (q + 1) \div 2] : q \in 1..4}
    /\ choices = {[id |-> q, question_id |-> q, is_correct |-> TRUE] : q \in 1..4}
    /\ \E n \in 0..3 :
          \E f \in [1..n -> Attempts] :
             /\ \A i, j \in 1..n : i < j => f[i].at <= f[j].at
             /\ results = SummaryResults(f)
    /\ details = SummaryDetails(results)
    /\ profiles = {}
    /\ now = MaxTime
    /\ wlock = 0
    /\ req = [r \in Reqs |-> IdleReq]

NextSummary == \E u \in Students : QuizSummary(1, u)

SpecSummary == InitSummary /\ [][NextSummary]_vars

\* ============================================================== claims
\* C1: in every reachable state there is at most one lesson_progress row
\* per (user, lesson), also when complete_lesson requests interleave.
C1_AtMostOneProgressRow ==
    \A p1, p2 \in progress :
        (p1.user_id = p2.user_id /\ p1.lesson_id = p2.lesson_id) => p1.id = p2.id

\* C2: completing a lesson that the caller has completed before, the calls
\* made one after the other, adds no row: the pair keeps exactly one row,
\* completed and dated with the instant of this call, and every row of
\* another user or lesson is as it was.
C2_SecondCompletionRefreshes ==
    [][\A r \in Reqs :
        LET u == req[r].user
            l == req[r].arg
            mine(rows) == {p \in rows : p.user_id = u /\ p.lesson_id = l}
        IN (/\ req[r].kind = "complete" /\ req[r].pc = "write"
            /\ req'[r].pc = "done"
            /\ mine(progress) # {})
           => /\ Cardinality(progress') = Cardinality(progress)
              /\ Cardinality(mine(progress')) = 1
              /\ \A p \in mine(progress') : p.is_completed /\ p.completed_at = now
              /\ progress' \ mine(progress') = progress \ mine(progress)]_vars

C2_Witness ==
    \E r1, r2 \in Reqs :
        /\ r1 < r2
        /\ req[r1].kind = "complete" /\ req[r1].resp = "ok"
        /\ req[r2].kind = "complete" /\ req[r2].resp = "ok"
        /\ req[r1].user = req[r2].user /\ req[r1].arg = req[r2].arg
        /\ \E p \in progress :
              /\ p.user_id = req[r2].user /\ p.lesson_id = req[r2].arg
              /\ p.completed_at >= 1
        /\ Cardinality({p \in progress : p.user_id = req[r2].user
                                         /\ p.lesson_id = req[r2].arg}) = 1
        /\ \E p \in progress : p.user_id # req[r2].user

\* C3: the result an accepted submission stores has score = the number of
\* presented questions whose submitted choice id resolves to a stored choice
\* flagged correct, total_questions = the number of the lesson's questions,
\* and exactly one detail row per question whose answer resolves; a question
\* left unanswered gets no detail row and adds nothing to the score.
C3_ScoreCountsCorrectAnswers ==
    [][\A r \in Reqs :
        (req[r].kind = "take" /\ req[r].pc = "commit" /\ req'[r].resp = "ok") =>
        LET presented == {req[r].qs[i] : i \in 1..Len(req[r].qs)}
            form == req[r].form
            resolves(q) == /\ form[q] # ""
                           /\ IsInt(form[q])
                           /\ \E c \in choices : c.id = ParseInt(form[q])
            rightly(q) == /\ resolves(q)
                          /\ \E c \in choices : c.id = ParseInt(form[q]) /\ c.is_correct
            newres == results' \ results
            newdet == details' \ details
        IN /\ Cardinality(newres) = 1
           /\ \A x \in newres :
                /\ x.score = Cardinality({q \in presented : rightly(q)})
                /\ x.total_questions =
                      Cardinality({q \in questions : q.lesson_id = req[r].arg})
                /\ \A d \in newdet : d.result_id = x.id
           /\ \A q \in presented :
                Cardinality({d \in newdet : d.question_id = q})
                    = (IF resolves(q) THEN 1 ELSE 0)
           /\ Cardinality(newdet) = Cardinality({q \in presented : resolves(q)})]_vars

\* four questions, three answered correctly, one left out
C3_Witness ==
    \E x \in results :
        /\ x.score = 3 /\ x.total_questions = 4
        /\ Cardinality({d \in details : d.result_id = x.id}) = 3
        /\ \E r \in Reqs : req[r].resp = "ok" /\ req[r].rid = x.id

\* C4: the attempt is written as a unit: in every committed state each
\* result's score is the number of its detail rows flagged correct, every
\* detail row belongs to a committed result, and the committed results are
\* exactly those of the attempts that ended well (an attempt that failed
\* before its commit, or is still running, has left no row).
C4_AttemptIsAtomic ==
    /\ \A x \in results :
          x.score = Cardinality({d \in details : d.result_id = x.id /\ d.is_correct})
    /\ \A d \in details : \E x \in results : x.id = d.result_id
    /\ {x.id : x \in results}
          = {req[r].rid : r \in {s \in Reqs : req[s].kind = "take" /\ req[s].resp = "ok"}}

C4_Witness ==
    /\ \E x \in results : x.score >= 1
    /\ \E r \in Reqs : req[r].kind = "take" /\ req[r].resp = "error"

\* C5: every lesson_progress row and every quiz_results row of a user who
\* is no admin refers to a lesson of a course the user is enrolled in.
C5_WritesNeedEnrollment ==
    /\ \A p \in progress :
          Role(p.user_id) # "admin" =>
             \E e \in enrollments :
                e.user_id = p.user_id /\ e.course_id = LessonCourse(p.lesson_id)
    /\ \A x \in results :
          Role(x.user_id) # "admin" =>
             \E e \in enrollments :
                e.user_id = x.user_id /\ e.course_id = LessonCourse(x.lesson_id)

\* a student enrolled in the other course only was turned away by both
C5_Witness ==
    \E r1, r2 \in Reqs :
        /\ req[r1].kind = "complete" /\ req[r1].resp = "not_enrolled"
        /\ req[r2].kind = "take" /\ req[r2].resp = "not_enrolled"
        /\ req[r1].user = req[r2].user /\ Role(req[r1].user) # "admin"
        /\ \E e \in enrollments : e.user_id = req[r1].user
        /\ \A p \in progress : p.user_id # req[r1].user
        /\ \A x \in results : x.user_id # req[r1].user

\* C6: an admin without enrollment in the lesson's course is let through by
\* both handlers: complete_lesson records the completion, quiz_take is not
\* refused for want of an enrollment.
C6_AdminBypassesEnrollment ==
    \A r \in Reqs :
        (/\ req[r].pc = "done"
         /\ req[r].kind \in {"complete", "take"}
         /\ Role(req[r].user) = "admin"
         /\ ~ \E e \in enrollments :
                e.user_id = req[r].user /\ e.course_id = LessonCourse(req[r].arg))
        => /\ req[r].resp # "not_enrolled"
           /\ req[r].kind = "complete" =>
                 \E p \in progress : /\ p.user_id = req[r].user
                                     /\ p.lesson_id = req[r].arg
                                     /\ p.is_completed

\* C7: in every reachable state there is at most one enrollments row per
\* (user, course), also when enroll_course requests interleave.
C7_AtMostOneEnrollment ==
    \A e1, e2 \in enrollments :
        (e1.user_id = e2.user_id /\ e1.course_id = e2.course_id) => e1.id = e2.id

\* C8: every stored quiz result has total_questions >= 1: a submission for
\* a lesson without questions is turned away and writes nothing.
C8_NoResultWithoutQuestions ==
    /\ \A x \in results : x.total_questions >= 1
    /\ \A r \in Reqs : req[r].resp = "no_quiz" => req[r].rid = 0

C8_Witness ==
    /\ \E r \in Reqs : req[r].kind = "take" /\ req[r].resp = "no_quiz"
    /\ \E x \in results : x.total_questions >= 1

\* C9: submissions that ended well are recorded as separate attempts: each
\* has a result row of its own (its caller, its lesson, its score, its
\* correct detail rows), no two share a row, and every detail row belongs
\* to exactly one stored result.
C9_AttemptsRecordedSeparately ==
    LET ok == {r \in Reqs : req[r].kind = "take" /\ req[r].resp = "ok"}
    IN /\ \A r1, r2 \in ok : r1 # r2 => req[r1].rid # req[r2].rid
       /\ \A r \in ok :
            \E x \in results :
               /\ x.id = req[r].rid
               /\ x.user_id = req[r].user /\ x.lesson_id = req[r].arg
               /\ x.score = req[r].correct
               /\ Cardinality({d \in details : d.result_id = x.id /\ d.is_correct})
                     = req[r].correct
       /\ \A x1, x2 \in results : x1.id = x2.id => x1 = x2
       /\ \A d1, d2 \in details : d1.id = d2.id => d1 = d2
       /\ \A d \in details : \E x \in results : x.id = d.result_id

\* two attempts of one user at one lesson that overlapped: the one begun
\* first was written second
C9_Witness ==
    /\ req[1].kind = "take" /\ req[1].resp = "ok"
    /\ req[2].kind = "take" /\ req[2].resp = "ok"
    /\ req[1].user = req[2].user /\ req[1].arg = req[2].arg
    /\ req[1].rid = 2 /\ req[2].rid = 1
    /\ Cardinality(results) = 2

\* C10: no step changes or removes a committed quiz result or a committed
\* detail row, and a detail row is written with the is_correct flag its
\* choice has at that moment.
C10_CommittedResultsNeverChange ==
    [][/\ \A x \in results : x \in results'
       /\ \A d \in details : d \in details'
       /\ \A d \in details' \ details :
             \E c \in choices : c.id = d.choice_id /\ c.is_correct = d.is_correct]_vars

\* a stored answer whose choice id now carries the opposite flag
C10_Witness ==
    \E d \in details :
        \E c \in choices : c.id = d.choice_id /\ c.is_correct # d.is_correct

\* C11: a retry (quiz_retry) by the owner of a result none of whose detail
\* rows is flagged incorrect answers with the "nothing to retry" signal,
\* presents no question and leaves quiz_results and quiz_result_details
\* as they were.
C11_RetryOfAllCorrectSignals ==
    [][\A r \in Reqs :
        (/\ req[r].kind = "idle" /\ req'[r].kind = "retry"
         /\ \E x \in results : x.id = req'[r].arg /\ x.user_id = req'[r].user
         /\ \A d \in details : d.result_id = req'[r].arg => d.is_correct)
        => /\ req'[r].resp = "nothing_to_retry"
           /\ req'[r].view = NoView
           /\ results' = results
           /\ details' = details]_vars

\* the owner of a result with full marks was told so, and the result is
\* still the only one
C11_Witness ==
    \E r \in Reqs :
        /\ req[r].kind = "retry" /\ req[r].resp = "nothing_to_retry"
        /\ \E x \in results :
              /\ x.id = req[r].arg /\ x.user_id = req[r].user
              /\ x.score = 2 /\ x.total_questions = 2
        /\ Cardinality(results) = 1

\* C12: scoring a retry (quiz_retry_submit) writes nothing: whatever the
\* original and the submitted answers, quiz_results and quiz_result_details
\* are unchanged by the step; and the tally it renders has total = the
\* number of the original's details flagged incorrect, score = the number of
\* review rows marked correct with 0 <= score <= total, a question left
\* unanswered being marked incorrect.
C12_RetryScoringIsEphemeral ==
    [][\A r \in Reqs :
        (req[r].kind = "idle" /\ req'[r].kind = "retry_submit")
        => /\ results' = results
           /\ details' = details
           /\ req'[r].resp = "ok" =>
                LET v == req'[r].view
                    wrong == {d \in details : d.result_id = req'[r].arg /\ ~d.is_correct}
                IN /\ v.total = Cardinality(wrong)
                   /\ v.score = Cardinality({w \in v.results : w.is_correct})
                   /\ 0 <= v.score /\ v.score <= v.total
                   /\ {w.detail : w \in v.results} = {d.id : d \in wrong}
                   /\ \A w \in v.results :
                        req'[r].form[w.question] = "" => ~w.is_correct]_vars

\* a retry of two wrong answers, one now answered correctly and one left
\* out, was scored 1 of 2, and the original is still the only result
C12_Witness ==
    \E r \in Reqs :
        /\ req[r].kind = "retry_submit" /\ req[r].resp = "ok"
        /\ req[r].view.total = 2 /\ req[r].view.score = 1
        /\ \E w \in req[r].view.results : req[r].form[w.question] = "" /\ ~w.is_correct
        /\ Cardinality(results) = 1
        /\ \E x \in results : x.id = req[r].arg /\ x.score = 0

\* C13: for an authenticated caller the progress map's entry of a course
\* without lessons is completed = 0, total = 0, percent = 0, is_completed =
\* false, whatever lesson_progress rows are stored.
C13_EmptyCourseIsNeverComplete ==
    \A r \in Reqs :
        (req[r].kind = "courses" /\ req[r].user # Anonymous) =>
            /\ DOMAIN req[r].view.progress_map = req[r].view.courses
            /\ \A c \in req[r].view.courses :
                  CourseLessons(c) = {} =>
                     req[r].view.progress_map[c] =
                        [completed |-> 0, total |-> 0, percent |-> 0,
                         is_completed |-> FALSE]

\* a student who has completed lessons of course 1 was shown course 2
C13_Witness ==
    \E r \in Reqs :
        /\ req[r].kind = "courses" /\ req[r].user \in Students
        /\ 2 \in req[r].view.courses /\ CourseLessons(2) = {}
        /\ \E p \in progress : p.user_id = req[r].user /\ p.is_completed

\* C14: for an authenticated caller and a course with lessons, the entry
\* the progress map is built with has completed = the number of distinct
\* lessons of the course the caller has a completed lesson_progress row
\* for, percent = floor(completed / total * 100), is_completed =
\* (completed = total).
C14_ProgressCountsDistinctLessons ==
    [][\A r \in Reqs :
        (req[r].kind = "idle" /\ req'[r].kind = "courses" /\ req'[r].user # Anonymous) =>
            \A c \in req'[r].view.courses :
                CourseLessons(c) # {} =>
                   LET e == req'[r].view.progress_map[c]
                       done == {l \in CourseLessons(c) :
                                  \E p \in progress : /\ p.lesson_id = l
                                                      /\ p.user_id = req'[r].user
                                                      /\ p.is_completed}
                   IN /\ e.total = Cardinality(CourseLessons(c))
                      /\ e.completed = Cardinality(done)
                      /\ e.percent = (Cardinality(done) * 100) \div e.total
                      /\ e.is_completed = (Cardinality(done) = e.total)]_vars

\* C15: the dashboard's chart has exactly 7 entries, oldest first, for the
\* 7 calendar dates ending today; each is the number of the caller's
\* completed lessons dated that day (0 where there is none), so that they
\* sum to the caller's completions in the 7-day window.
C15_ChartHasSevenDailyCounts ==
    [][\A r \in Reqs :
        (req[r].kind = "idle" /\ req'[r].kind = "dashboard") =>
            LET v == req'[r].view.chart_values
                today == now \div DayLen
                mine == {p \in progress : p.user_id = req'[r].user /\ p.is_completed}
                on(d) == {p \in mine : p.completed_at \div DayLen = d}
            IN /\ Len(v) = 7
               /\ \A i \in 1..7 : v[i] = Cardinality(on(today - 7 + i))
               /\ v[1] + v[2] + v[3] + v[4] + v[5] + v[6] + v[7]
                     = Cardinality({p \in mine : /\ p.completed_at \div DayLen >= today - 6
                                                 /\ p.completed_at \div DayLen <= today})]_vars

\* two completions six days ago, none five days ago, one today, and one
\* seven days ago that the chart leaves out
C15_Witness ==
    \E r \in Reqs :
        /\ req[r].kind = "dashboard" /\ req[r].user = "stu1"
        /\ req[r].view.chart_values[1] = 2
        /\ req[r].view.chart_values[2] = 0
        /\ req[r].view.chart_values[7] = 1
        /\ \E p \in progress : /\ p.user_id = "stu1"
                               /\ p.completed_at \div DayLen = (now \div DayLen) - 7

\* C16: the current streak is the number of consecutive calendar days,
\* counted backwards from today up to the first day without one, on which
\* the caller has a completed lesson; it is 0 when today has none.
C16_CurrentStreakCountsBackFromToday ==
    [][\A r \in Reqs :
        (req[r].kind = "idle" /\ req'[r].kind = "dashboard") =>
            LET today == now \div DayLen
                active == {p.completed_at \div DayLen :
                             p \in {x \in progress : x.user_id = req'[r].user
                                                     /\ x.is_completed}}
                n == req'[r].view.current_streak_days
            IN /\ \A k \in 0..(n - 1) : today - k \in active
               /\ today - n \notin active
               /\ today \notin active => n = 0]_vars

\* C17: the longest streak is the greatest length of a run of consecutive
\* dates among the caller's active dates of the trailing 60 days (today and
\* the 59 days before), 0 when there is none; for the active dates
\* {d, d+1, d+2, d+5} it is 3.
C17_LongestStreakIsLongestRun ==
    [][\A r \in Reqs :
        (req[r].kind = "idle" /\ req'[r].kind = "dashboard") =>
            \A active \in {{p.completed_at \div DayLen :
                              p \in {x \in progress : x.user_id = req'[r].user
                                                      /\ x.is_completed}}
                           \cap (((now \div DayLen) - 59)..(now \div DayLen))} :
                LET n == req'[r].view.longest_streak_days
                    run(len) == \E d \in active : \A k \in 0..(len - 1) : d + k \in active
                IN /\ n \in 0..60
                   /\ n > 0 => run(n)
                   /\ ~run(n + 1)
                   /\ active = {} => n = 0
                   /\ (\E d \in active : active = {d, d + 1, d + 2, d + 5}) => n = 3]_vars

\* the active dates of the example
C17_Witness ==
    \E r \in Reqs :
        /\ req[r].kind = "dashboard" /\ req[r].user = "stu1"
        /\ req[r].view.longest_streak_days = 3
        /\ \E d \in ((now \div DayLen) - 59)..(now \div DayLen) :
              {p.completed_at \div DayLen : p \in {x \in progress : x.user_id = "stu1"}}
                 = {d, d + 1, d + 2, d + 5}

\* C18: with a profile whose weekly_goal_lessons is > 0, weekly_goal_percent
\* is min(100, floor(week_completed * 100 / goal)), hence at most 100 (goal
\* 5: 60 for 3 completions this week, 100 for 5 or more); without a profile,
\* with no goal set or with goal 0 it is None, which is not 0.
C18_WeeklyGoalPercentIsCapped ==
    [][\A r \in Reqs :
        (req[r].kind = "idle" /\ req'[r].kind = "dashboard") =>
            LET today == now \div DayLen
                monday == today - (today % 7)
                week == Cardinality({p \in progress : /\ p.user_id = req'[r].user
                                                      /\ p.is_completed
                                                      /\ p.completed_at \div DayLen >= monday})
                mine == {pr \in profiles : pr.user_id = req'[r].user}
                goals == {pr.weekly_goal_lessons[1] :
                            pr \in {x \in mine : x.weekly_goal_lessons # <<>>}}
                pct == req'[r].view.weekly_goal_percent
            IN /\ \A g \in goals : g > 0 =>
                    /\ Len(pct) = 1
                    /\ pct[1] = (IF (week * 100) \div g < 100 THEN (week * 100) \div g ELSE 100)
                    /\ pct[1] <= 100
                    /\ (g = 5 /\ week = 3) => pct[1] = 60
                    /\ (g = 5 /\ week >= 5) => pct[1] = 100
               /\ (\A g \in goals : g = 0) => (pct = <<>> /\ pct # <<0>>)]_vars

\* six completions this week against a goal of five
C18_Witness ==
    \E r \in Reqs :
        /\ req[r].kind = "dashboard" /\ req[r].user = "stu1"
        /\ req[r].view.week_completed_lessons = 6
        /\ req[r].view.weekly_goal = 5
        /\ req[r].view.weekly_goal_percent = <<100>>

\* C19: in the history query a date text that does not parse drops its own
\* bound only: with a valid start_date and a malformed end_date the rows
\* returned are those from the start date on, with a malformed start_date
\* and a valid end_date those up to the end of the end date; no error.
C19_MalformedDateDropsOwnBoundOnly ==
    [][(req[1].kind = "idle" /\ req'[1].kind = "history") =>
        LET s == req'[1].form.start_date
            e == req'[1].form.end_date
            day(t) == CHOOSE i \in 0..2 : DateText[i + 1] = t
            shown == {req'[1].view.recent_lessons[i] :
                         i \in DOMAIN req'[1].view.recent_lessons}
            mine == {p \in progress : /\ p.user_id = req'[1].user /\ p.is_completed
                                      /\ req'[1].arg \in {0, LessonCourse(p.lesson_id)}}
        IN /\ req'[1].resp = "ok"
           /\ (s \in {"2024-01-01", "2024-01-02", "2024-01-03"} /\ e = "2024-02-30")
                => shown = {p.id : p \in {x \in mine : x.completed_at \div DayLen >= day(s)}}
           /\ (s = "2024-02-30" /\ e \in {"2024-01-01", "2024-01-02", "2024-01-03"})
                => shown = {p.id : p \in {x \in mine : x.completed_at \div DayLen <= day(e)}}]_vars

\* C20: a history query whose start_date is after its end_date raises no
\* error and returns the rows of the query without the offending bound
\* (without the start bound, without the end bound, or without both).
C20_InvertedRangeDropsBound ==
    [][(req[1].kind = "idle" /\ req'[1].kind = "history") =>
        LET s == req'[1].form.start_date
            e == req'[1].form.end_date
            valid == {"2024-01-01", "2024-01-02", "2024-01-03"}
            day(t) == CHOOSE i \in 0..2 : DateText[i + 1] = t
            shown == {req'[1].view.recent_lessons[i] :
                         i \in DOMAIN req'[1].view.recent_lessons}
            mine == {p \in progress : /\ p.user_id = req'[1].user /\ p.is_completed
                                      /\ req'[1].arg \in {0, LessonCourse(p.lesson_id)}}
        IN /\ req'[1].resp = "ok"
           /\ (s \in valid /\ e \in valid /\ day(s) > day(e))
                => \/ shown = {p.id : p \in {x \in mine : x.completed_at \div DayLen <= day(e)}}
                   \/ shown = {p.id : p \in {x \in mine : x.completed_at \div DayLen >= day(s)}}
                   \/ shown = {p.id : p \in mine}]_vars

\* C21: the history query returns two independent lists, of the user's
\* completed lesson_progress rows and of the user's quiz results; each holds
\* only rows of the requesting user that match the course filter and lie in
\* start_date 00:00 <= timestamp < (end_date + 1 day) 00:00, is in descending
\* order of its own timestamp and holds at most 50 rows, the 50 newest
\* matching ones (for date fields that are empty or dates).
C21_HistoryReturnsNewestMatching ==
    [][(/\ req[1].kind = "idle" /\ req'[1].kind = "history"
        /\ req'[1].form.start_date \in {"", "2024-01-01", "2024-01-02", "2024-01-03"}
        /\ req'[1].form.end_date \in {"", "2024-01-01", "2024-01-02", "2024-01-03"}) =>
        LET u == req'[1].user
            course == req'[1].arg
            s == req'[1].form.start_date
            e == req'[1].form.end_date
            day(t) == CHOOSE i \in 0..2 : DateText[i + 1] = t
            ok(lesson, at) ==
                /\ course = 0 \/ \E l \in lessons : l.id = lesson /\ l.course_id = course
                /\ s = "" \/ at >= day(s) * DayLen
                /\ e = "" \/ at < (day(e) + 1) * DayLen
            Newest(seq, match) ==
                /\ \A i, j \in DOMAIN seq : i < j => seq[i] # seq[j]
                /\ \A i \in DOMAIN seq : \E m \in match : m.id = seq[i]
                /\ Len(seq) = IF Cardinality(match) < 50 THEN Cardinality(match) ELSE 50
                /\ \A i \in 1..(Len(seq) - 1) :
                      \E m1, m2 \in match :
                         m1.id = seq[i] /\ m2.id = seq[i + 1] /\ m1.at >= m2.at
                /\ \A m2 \in match :
                      (\A i \in DOMAIN seq : seq[i] # m2.id) =>
                         \E m1 \in match : m1.id = seq[Len(seq)] /\ m1.at >= m2.at
        IN /\ req'[1].resp = "ok"
           /\ \A lesson_rows \in {{[id |-> p.id, at |-> p.completed_at] :
                                     p \in {x \in progress :
                                              /\ x.user_id = u /\ x.is_completed
                                              /\ ok(x.lesson_id, x.completed_at)}}} :
                 Newest(req'[1].view.recent_lessons, lesson_rows)
           /\ \A quiz_rows \in {{[id |-> q.id, at |-> q.taken_at] :
                                   q \in {x \in results :
                                            /\ x.user_id = u
                                            /\ ok(x.lesson_id, x.taken_at)}}} :
                 Newest(req'[1].view.recent_quiz_results, quiz_rows)]_vars

\* a page cut at 50 rows by a request with a start date and a course
C21_Witness ==
    /\ req[1].kind = "history"
    /\ req[1].form.start_date = "2024-01-02"
    /\ req[1].arg = 1
    /\ Len(req[1].view.recent_lessons) = 50
    /\ Len(req[1].view.recent_quiz_results) = 50
    /\ Cardinality({p \in progress : p.completed_at >= DayLen /\ p.lesson_id # 1}) > 50
    /\ Cardinality({q \in results : q.taken_at >= DayLen /\ q.lesson_id # 1}) > 50

\* C22: after any sequence of quiz_create, quiz_edit and quiz_delete every
\* stored question owns between 1 and 4 choices, exactly one of them with
\* is_correct true.
C22_QuestionHasOneCorrectChoice ==
    \A q \in questions :
        /\ Cardinality({c \in choices : c.question_id = q.id}) \in 1..4
        /\ Cardinality({c \in choices : c.question_id = q.id /\ c.is_correct}) = 1

\* C23: a request for a stored quiz result the user is not entitled to
\* (another user's result, in quiz_result_detail, quiz_retry or
\* quiz_retry_submit) ends in an outcome that differs from the "not found"
\* outcome of a request for a result id that does not exist, and writes
\* nothing.
C23_ForbiddenDiffersFromMissing ==
    [][\A r \in Reqs :
         (/\ req[r].kind = "idle"
          /\ req'[r].kind \in {"result_detail", "retry", "retry_submit"}
          /\ \E x \in results :
                /\ x.id = req'[r].arg
                /\ x.user_id # req'[r].user
                /\ ~(req'[r].kind = "result_detail" /\ Role(req'[r].user) = "admin"))
         => /\ req'[r].resp # "not_found"
            /\ tables' = tables]_vars

\* C24: quiz_retry gives the "nothing to retry" signal only for a result
\* with full marks: whenever it finds no incorrect detail, the original
\* result has score = total_questions.
C24_NothingToRetryMeansFullMarks ==
    [][\A r \in Reqs :
         (/\ req[r].kind = "idle"
          /\ req'[r].kind = "retry"
          /\ req'[r].resp = "nothing_to_retry")
         => \A x \in results :
              x.id = req'[r].arg => x.score = x.total_questions]_vars

C26_ProgressEntryWithinRange ==
    \A u \in Students :
        \A c \in Courses :
            LET e == BuildProgressMap(Courses, u)[c]
            IN /\ 0 <= e.completed /\ e.completed <= e.total
               /\ 0 <= e.percent /\ e.percent <= 100
               /\ (e.percent = 100) <=> e.is_completed

\* C27: every detail row quiz_take creates records a choice of the detail's
\* own question (choice.question_id = detail.question_id): a choice id of
\* another question sent in the field of a question is neither recorded as
\* its answer nor counted in the score.
C27_DetailChoiceBelongsToQuestion ==
    \A d \in details :
        \A c \in choices : c.id = d.choice_id => c.question_id = d.question_id

\* C28: in every reachable state, after any sequence of quiz_take,
\* quiz_edit and quiz_delete, the question_id of every detail row names a
\* stored question and its choice_id a stored choice.
C28_DetailReferencesResolve ==
    \A d \in details :
        /\ \E q \in questions : q.id = d.question_id
        /\ \E c \in choices : c.id = d.choice_id

\* C29: every committed quiz result satisfies 0 <= score <= (number of its
\* detail rows) <= total_questions and has at most one detail row per
\* question, so the percent its detail page displays, score * 100 /
\* total_questions rounded down, lies in 0..100.
C29_ScoreWithinDetailsWithinTotal ==
    /\ \A x \in results :
          \A ds \in {{d \in details : d.result_id = x.id}} :
             /\ 0 <= x.score
             /\ x.score <= Cardinality(ds)
             /\ Cardinality(ds) <= x.total_questions
             /\ \A d1, d2 \in ds : d1.question_id = d2.question_id => d1 = d2
    /\ \A r \in Reqs :
          (req[r].kind = "result_detail" /\ req[r].resp = "ok") =>
             /\ req[r].view.percent \in 0..100
             /\ \E x \in results :
                   /\ x.id = req[r].arg
                   /\ req[r].view.percent = (x.score * 100) \div x.total_questions

\* the detail page of an attempt with one right and one wrong answer
C29_Witness ==
    \E r \in Reqs :
        /\ req[r].kind = "result_detail"
        /\ req[r].resp = "ok"
        /\ req[r].view.percent = 50
        /\ \E x \in results :
              /\ x.id = req[r].arg
              /\ x.score = 1
              /\ x.total_questions = 2
              /\ Cardinality({d \in details : d.result_id = x.id}) = 2

====
